---- MODULE Spec2Model ----
(***************************************************************************)
(* Model of rgb-core's validation Status accumulator                       *)
(* (src/src/validation/status.rs) and of the Schema identity and blank     *)
(* transition (src/src/schema/schema.rs).                                  *)
(***************************************************************************)
EXTENDS Integers, Sequences, FiniteSets, Bags, TLC

VARIABLES
    status,     \* the Status a validation run accumulates into
    last,       \* the last operation applied to status, with its operands
    parts,      \* the partial Status each worker holds
    merged,     \* the workers whose partial Status was merged, in merge order
    acc,        \* the accumulator the workers merge into
    abc,        \* three Statuses a, b, c (indices 1, 2, 3)
    assoc,      \* the two merges of a, b, c: [left, right], None before
    schemas,    \* two schemas S, T (indices 1, 2)
    out         \* the result of the last schema operation, None before

statusVars == <<status, last>>
workerVars == <<parts, merged, acc>>
assocVars == <<abc, assoc>>
schemaVars == <<schemas, out>>
vars == <<status, last, parts, merged, acc, abc, assoc, schemas, out>>

----------------------------------------------------------------------------
(* Bounds of the model *)

\* most entries status holds, over its five sequences
MaxEntries == 3
\* most entries of a Status merged into status
MaxRhs == 2
\* number of workers
NumWorkers == 2
\* most entries the workers produce together
MaxWorkEntries == 2
\* most entries a, b and c hold together
MaxAssocEntries == 3

\* representative values of the entry types
Txids == {"txA", "txB"}
Failures == {"NotAnchored", "SealNoWitnessTx"}
Warnings == {"EndpointDuplication", "ExcessiveNode"}
Infos == {"UncheckableConfidentialState", "CustomInfo"}

Workers == 1..NumWorkers
NoValue == "none"

\* Option<T>
None == << >>
Some(x) == <<x>>

----------------------------------------------------------------------------
(* Vec<T> *)

Vec_new == << >>

Vec_push(v, x) == Append(v, x)

Vec_is_empty(v) == Len(v) = 0

\* Vec::extend: pushes the iterator's items one by one, in iteration order
RECURSIVE Vec_extend(_, _)
Vec_extend_reversed(v, iter) ==
    v \o [i \in 1..Len(iter) |-> iter[Len(iter) + 1 - i]]
Vec_extend(v, iter) ==
    IF iter = << >> THEN v
    ELSE Vec_extend(Vec_push(v, Head(iter)), Tail(iter))

----------------------------------------------------------------------------
(* validation::Validity and validation::Status *)

Validity == {"Valid", "ValidExceptEndpoints", "UnresolvedTransactions", "Invalid"}

Fields == {"unresolved_txids", "unmined_endpoint_txids", "failures", "warnings", "info"}

Status_default ==
    [unresolved_txids |-> Vec_new,
     unmined_endpoint_txids |-> Vec_new,
     failures |-> Vec_new,
     warnings |-> Vec_new,
     info |-> Vec_new]

add_assign_swapped(self_, rhs) ==
    [unresolved_txids |->
         Vec_extend(self_.unresolved_txids, rhs.unmined_endpoint_txids),
     unmined_endpoint_txids |->
         Vec_extend(self_.unmined_endpoint_txids, rhs.unresolved_txids),
     failures |-> Vec_extend(self_.failures, rhs.failures),
     warnings |-> Vec_extend(self_.warnings, rhs.warnings),
     info |-> Vec_extend(self_.info, rhs.info)]
add_assign_overwrite(self_, rhs) ==
    [unresolved_txids |-> Vec_extend(self_.unresolved_txids, rhs.unresolved_txids),
     unmined_endpoint_txids |->
         Vec_extend(self_.unmined_endpoint_txids, rhs.unmined_endpoint_txids),
     failures |-> IF Vec_is_empty(rhs.failures) THEN self_.failures ELSE rhs.failures,
     warnings |-> Vec_extend(self_.warnings, rhs.warnings),
     info |-> Vec_extend(self_.info, rhs.info)]
add_assign(self_, rhs) ==
    [unresolved_txids |-> Vec_extend(self_.unresolved_txids, rhs.unresolved_txids),
     unmined_endpoint_txids |->
         Vec_extend(self_.unmined_endpoint_txids, rhs.unmined_endpoint_txids),
     failures |-> Vec_extend(self_.failures, rhs.failures),
     warnings |-> Vec_extend(self_.warnings, rhs.warnings),
     info |-> Vec_extend(self_.info, rhs.info)]

Status_from_error_forgets(v) == Status_default
Status_from_error(v) ==
    [unresolved_txids |-> Vec_new,
     unmined_endpoint_txids |-> Vec_new,
     failures |-> <<v>>,
     warnings |-> Vec_new,
     info |-> Vec_new]

Status_new == Status_default

Status_with_failure(failure) == [Status_default EXCEPT !.failures = <<failure>>]

add_failure(self_, failure) ==
    [self_ EXCEPT !.failures = Vec_push(self_.failures, failure)]

add_warning(self_, warning) ==
    [self_ EXCEPT !.warnings = Vec_push(self_.warnings, warning)]

add_info_as_warning(self_, info) ==
    [self_ EXCEPT !.warnings = Vec_push(self_.warnings, info)]
add_info(self_, info) ==
    [self_ EXCEPT !.info = Vec_push(self_.info, info)]

validity_by_unresolved(self_) ==
    IF Vec_is_empty(self_.failures) THEN
        IF Vec_is_empty(self_.unresolved_txids) THEN "Valid"
        ELSE "ValidExceptEndpoints"
    ELSE IF Vec_is_empty(self_.unresolved_txids) THEN "Invalid"
    ELSE "UnresolvedTransactions"
validity_unresolved_first(self_) ==
    IF ~Vec_is_empty(self_.unresolved_txids) THEN "UnresolvedTransactions"
    ELSE IF Vec_is_empty(self_.failures) THEN
        IF Vec_is_empty(self_.unmined_endpoint_txids) THEN "Valid"
        ELSE "ValidExceptEndpoints"
    ELSE "Invalid"
validity_counts_warnings(self_) ==
    IF Vec_is_empty(self_.failures) THEN
        IF Vec_is_empty(self_.unmined_endpoint_txids) /\ Vec_is_empty(self_.warnings)
        THEN "Valid"
        ELSE "ValidExceptEndpoints"
    ELSE IF Vec_is_empty(self_.unresolved_txids) THEN "Invalid"
    ELSE "UnresolvedTransactions"
validity(self_) ==
    IF Vec_is_empty(self_.failures) THEN
        IF Vec_is_empty(self_.unmined_endpoint_txids) THEN "Valid"
        ELSE "ValidExceptEndpoints"
    ELSE IF Vec_is_empty(self_.unresolved_txids) THEN "Invalid"
    ELSE "UnresolvedTransactions"

----------------------------------------------------------------------------
(* Status values used as operands *)

\* number of entries of a Status, over its five sequences
Entries(s) ==
    Len(s.unresolved_txids) + Len(s.unmined_endpoint_txids) + Len(s.failures)
        + Len(s.warnings) + Len(s.info)

\* the values an entry of a sequence may take
ValuesOf(f) ==
    CASE f = "failures" -> Failures
      [] f = "warnings" -> Warnings
      [] f = "info" -> Infos
      [] OTHER -> Txids

\* every (sequence, entry) pair
FieldEntries == UNION { { <<f, x>> : x \in ValuesOf(f) } : f \in Fields }

\* every Status holding at most n entries
RECURSIVE StatusesUpTo(_)
StatusesUpTo(n) ==
    IF n = 0 THEN {Status_default}
    ELSE LET P == StatusesUpTo(n - 1)
         IN P \cup { [s EXCEPT ![e[1]] = Append(s[e[1]], e[2])] :
                       s \in P, e \in FieldEntries }

----------------------------------------------------------------------------
(* One Status and the operations on it *)

Op(name, pre, rhs, arg) == [op |-> name, pre |-> pre, rhs |-> rhs, arg |-> arg]

InitStatus ==
    /\ status = Status_new
    /\ last = Op("new", Status_default, Status_default, NoValue)

New ==
    /\ status' = Status_new
    /\ last' = Op("new", status, Status_default, NoValue)
    /\ UNCHANGED <<workerVars, assocVars, schemaVars>>

FromError(v) ==
    /\ status' = Status_from_error(v)
    /\ last' = Op("from_error", status, Status_default, v)
    /\ UNCHANGED <<workerVars, assocVars, schemaVars>>

WithFailure(failure) ==
    /\ status' = Status_with_failure(failure)
    /\ last' = Op("with_failure", status, Status_default, failure)
    /\ UNCHANGED <<workerVars, assocVars, schemaVars>>

AddFailure(failure) ==
    /\ Entries(status) < MaxEntries
    /\ status' = add_failure(status, failure)
    /\ last' = Op("add_failure", status, Status_default, failure)
    /\ UNCHANGED <<workerVars, assocVars, schemaVars>>

AddWarning(warning) ==
    /\ Entries(status) < MaxEntries
    /\ status' = add_warning(status, warning)
    /\ last' = Op("add_warning", status, Status_default, warning)
    /\ UNCHANGED <<workerVars, assocVars, schemaVars>>

AddInfo(info) ==
    /\ Entries(status) < MaxEntries
    /\ status' = add_info(status, info)
    /\ last' = Op("add_info", status, Status_default, info)
    /\ UNCHANGED <<workerVars, assocVars, schemaVars>>

AddAssign(rhs) ==
    /\ Entries(status) + Entries(rhs) <= MaxEntries
    /\ status' = add_assign(status, rhs)
    /\ last' = Op("add_assign", status, rhs, NoValue)
    /\ UNCHANGED <<workerVars, assocVars, schemaVars>>

----------------------------------------------------------------------------
(* Workers that each produce a partial Status and merge it into acc *)

RECURSIVE SumEntries(_, _)
SumEntries(p, ws) ==
    IF ws = {} THEN 0
    ELSE LET w == CHOOSE x \in ws : TRUE
         IN Entries(p[w]) + SumEntries(p, ws \ {w})

IsMerged(w) == \E i \in DOMAIN merged : merged[i] = w

InitWorkers ==
    /\ parts = [w \in Workers |-> Status_new]
    /\ merged = << >>
    /\ acc = Status_new

Working(w) ==
    /\ ~IsMerged(w)
    /\ SumEntries(parts, Workers) < MaxWorkEntries

WorkerAddFailure(w, failure) ==
    /\ Working(w)
    /\ parts' = [parts EXCEPT ![w] = add_failure(parts[w], failure)]
    /\ UNCHANGED <<merged, acc, statusVars, assocVars, schemaVars>>

WorkerAddWarning(w, warning) ==
    /\ Working(w)
    /\ parts' = [parts EXCEPT ![w] = add_warning(parts[w], warning)]
    /\ UNCHANGED <<merged, acc, statusVars, assocVars, schemaVars>>

WorkerAddInfo(w, info) ==
    /\ Working(w)
    /\ parts' = [parts EXCEPT ![w] = add_info(parts[w], info)]
    /\ UNCHANGED <<merged, acc, statusVars, assocVars, schemaVars>>

\* a worker merges the Status of one checked item into its partial Status
WorkerAddAssign(w, rhs) ==
    /\ Working(w)
    /\ parts' = [parts EXCEPT ![w] = add_assign(parts[w], rhs)]
    /\ UNCHANGED <<merged, acc, statusVars, assocVars, schemaVars>>

\* acc += parts[w], one atomic step
Merge(w) ==
    /\ ~IsMerged(w)
    /\ acc' = add_assign(acc, parts[w])
    /\ merged' = Append(merged, w)
    /\ UNCHANGED <<parts, statusVars, assocVars, schemaVars>>

----------------------------------------------------------------------------
(* (a += b) += c against a += (b += c) *)

InitAssoc ==
    /\ abc = [i \in 1..3 |-> Status_new]
    /\ assoc = [left |-> None, right |-> None]

\* the operands are built by merging one-entry Statuses into them
Grow(i, rhs) ==
    /\ assoc.left = None /\ assoc.right = None
    /\ SumEntries(abc, 1..3) < MaxAssocEntries
    /\ abc' = [abc EXCEPT ![i] = add_assign(abc[i], rhs)]
    /\ UNCHANGED <<assoc, statusVars, workerVars, schemaVars>>

\* a += b; a += c
MergeLeft ==
    /\ assoc.left = None
    /\ assoc' = [assoc EXCEPT
                   !.left = Some(add_assign(add_assign(abc[1], abc[2]), abc[3]))]
    /\ UNCHANGED <<abc, statusVars, workerVars, schemaVars>>

\* b += c; a += b
MergeRight ==
    /\ assoc.right = None
    /\ assoc' = [assoc EXCEPT
                   !.right = Some(add_assign(abc[1], add_assign(abc[2], abc[3])))]
    /\ UNCHANGED <<abc, statusVars, workerVars, schemaVars>>

----------------------------------------------------------------------------
(* schema::Schema, schema::SchemaId *)

\* largest assignment type id of the model's schemas
MaxTypeId == 2
\* most entries of a TinyOrdMap (u8::MAX in amplify), scaled down
TINY_MAX == 2
\* largest entry count tried against an occurrence bound
MaxCount == 3
\* bytes of a SchemaId
ID_LEN == 32

TypeIds == 0..MaxTypeId
StateSchemas == {"Declarative", "Fungible"}
Ffvs == {0, 1}

\* TinyOrdMap<K, V>: an ordered map confined to at most TINY_MAX entries
TinyOrdMap_default == [x \in {} |-> NoValue]

TinyOrdMaps(K, V) ==
    UNION { [D -> V] : D \in { D \in SUBSET K : Cardinality(D) <= TINY_MAX } }

TinyOrdMap_keys(m) == DOMAIN m

\* Confined::insert(key, value).ok(): an insert over the confinement is refused
\* and the error dropped
TinyOrdMap_insert(m, key, value) ==
    IF Cardinality(DOMAIN m) + 1 > TINY_MAX THEN m
    ELSE [x \in DOMAIN m \cup {key} |-> IF x = key THEN value ELSE m[x]]

\* Occurrences: the inclusive (min, max) bound of a count (a u16)
Occurrences_min_value(occ) ==
    CASE occ = "Once" -> 1
      [] occ = "NoneOrOnce" -> 0
      [] occ = "NoneOrMore" -> 0
      [] occ = "OnceOrMore" -> 1

Occurrences_max_value(occ) ==
    CASE occ = "Once" -> 1
      [] occ = "NoneOrOnce" -> 1
      [] occ = "NoneOrMore" -> 65535
      [] occ = "OnceOrMore" -> 65535

Occurrences_check(occ, count) ==
    Occurrences_min_value(occ) <= count /\ count <= Occurrences_max_value(occ)

\* the fields of Schema the model varies; the others keep their default value
Schema_default == [ffv |-> 0, owned_types |-> TinyOrdMap_default]

SchemaSet == [ffv : Ffvs, owned_types : TinyOrdMaps(TypeIds, StateSchemas)]

\* TransitionSchema::default(), the two maps blank_transition fills
TransitionSchema_default ==
    [inputs |-> TinyOrdMap_default, assignments |-> TinyOrdMap_default]

SetMin(S) == CHOOSE x \in S : \A y \in S : x <= y

RECURSIVE blank_transition_loop(_, _)
blank_transition_loop(schema, keys) ==
    IF keys = {} THEN schema
    ELSE LET id == SetMin(keys)
         IN blank_transition_loop(
                [schema EXCEPT
                   !.inputs = TinyOrdMap_insert(schema.inputs, id, "NoneOrMore"),
                   !.assignments = TinyOrdMap_insert(schema.assignments, id, "NoneOrMore")],
                keys \ {id})

blank_transition_once(self_) ==
    LET ts == blank_transition_loop(TransitionSchema_default, TinyOrdMap_keys(self_.owned_types))
    IN [ts EXCEPT !.inputs = [x \in DOMAIN ts.inputs |-> "OnceOrMore"]]
blank_transition(self_) ==
    blank_transition_loop(TransitionSchema_default, TinyOrdMap_keys(self_.owned_types))

\* strict encoding: little-endian integers, a map as its length and its
\* entries in key order
StrictEncode_u16(n) == <<n % 256, n \div 256>>

StateSchema_tag(st) ==
    CASE st = "Declarative" -> 0
      [] st = "Fungible" -> 1
      [] st = "Structured" -> 2

RECURSIVE StrictEncode_entries(_, _)
StrictEncode_entries(m, keys) ==
    IF keys = {} THEN << >>
    ELSE LET k == SetMin(keys)
         IN StrictEncode_u16(k) \o <<StateSchema_tag(m[k])>>
                \o StrictEncode_entries(m, keys \ {k})

strict_serialize(schema) ==
    StrictEncode_u16(schema.ffv)
        \o <<Cardinality(DOMAIN schema.owned_types)>>
        \o StrictEncode_entries(schema.owned_types, DOMAIN schema.owned_types)

\* CommitmentId::TAG, b"urn:lnpbp:rgb:schema:v01#202302A"
TAG ==
    <<117, 114, 110, 58, 108, 110, 112, 98, 112, 58, 114, 103, 98, 58, 115, 99,
      104, 101, 109, 97, 58, 118, 48, 49, 35, 50, 48, 50, 51, 48, 50, 65>>

\* the tagged hash of the commitment, as a deterministic digest of few values
RECURSIVE digest(_, _, _)
digest(h, bytes, i) ==
    IF i > Len(bytes) THEN h
    ELSE digest((h * 31 + bytes[i] + 1) % 256, bytes, i + 1)

\* the hash engine after it has absorbed the tag
TagMidstate == digest(0, TAG, 1)

commitment_id(schema) ==
    LET h == digest(TagMidstate, strict_serialize(schema), 1)
    IN [i \in 1..ID_LEN |-> (h * i + i * i) % 256]

schema_id(self_) == commitment_id(self_)

\* derived PartialEq and Ord of SchemaId(Bytes32): the bytes, in order
SchemaId_eq(a, b) == a = b

RECURSIVE SchemaId_cmp(_, _)
SchemaId_cmp(a, b) ==
    IF a = << >> \/ b = << >> THEN
        IF Len(a) < Len(b) THEN "Less" ELSE IF Len(a) > Len(b) THEN "Greater" ELSE "Equal"
    ELSE IF Head(a) < Head(b) THEN "Less"
    ELSE IF Head(a) > Head(b) THEN "Greater"
    ELSE SchemaId_cmp(Tail(a), Tail(b))

Schema_eq(self_, other) == SchemaId_eq(schema_id(self_), schema_id(other))

\* the field-wise order a derived Ord would give
Schema_cmp_by_fields(self_, other) ==
    IF self_.ffv < other.ffv THEN "Less"
    ELSE IF self_.ffv > other.ffv THEN "Greater"
    ELSE SchemaId_cmp(strict_serialize(self_), strict_serialize(other))
Schema_cmp(self_, other) == SchemaId_cmp(schema_id(self_), schema_id(other))

Schema_partial_cmp(self_, other) == Some(Schema_cmp(self_, other))

Out(name, res) == [op |-> name, pre |-> schemas, res |-> res]

InitSchemaIdle ==
    /\ schemas = [i \in 1..2 |-> Schema_default]
    /\ out = [op |-> "none", pre |-> schemas, res |-> NoValue]

InitSchema ==
    /\ schemas \in [1..2 -> SchemaSet]
    /\ out = [op |-> "none", pre |-> schemas, res |-> NoValue]

\* schemas[1].blank_transition()
BlankTransition ==
    /\ out' = Out("blank_transition", blank_transition(schemas[1]))
    /\ UNCHANGED <<schemas, statusVars, workerVars, assocVars>>

\* schemas[1] == schemas[2]
PartialEq ==
    /\ out' = Out("eq", Schema_eq(schemas[1], schemas[2]))
    /\ UNCHANGED <<schemas, statusVars, workerVars, assocVars>>

\* schemas[1].cmp(&schemas[2])
Cmp ==
    /\ out' = Out("cmp", Schema_cmp(schemas[1], schemas[2]))
    /\ UNCHANGED <<schemas, statusVars, workerVars, assocVars>>

\* schemas[1].partial_cmp(&schemas[2])
PartialCmp ==
    /\ out' = Out("partial_cmp", Schema_partial_cmp(schemas[1], schemas[2]))
    /\ UNCHANGED <<schemas, statusVars, workerVars, assocVars>>

----------------------------------------------------------------------------
(* Specifications *)

Init == InitStatus /\ InitWorkers /\ InitAssoc /\ InitSchemaIdle

Next ==
    \/ New
    \/ \E v \in Failures : FromError(v)
    \/ \E failure \in Failures : WithFailure(failure)
    \/ \E failure \in Failures : AddFailure(failure)
    \/ \E warning \in Warnings : AddWarning(warning)
    \/ \E info \in Infos : AddInfo(info)
    \/ \E rhs \in StatusesUpTo(MaxRhs) : AddAssign(rhs)

Spec == Init /\ [][Next]_vars

NextWorkers ==
    \/ \E w \in Workers, failure \in Failures : WorkerAddFailure(w, failure)
    \/ \E w \in Workers, warning \in Warnings : WorkerAddWarning(w, warning)
    \/ \E w \in Workers, info \in Infos : WorkerAddInfo(w, info)
    \/ \E w \in Workers, rhs \in StatusesUpTo(1) \ {Status_default} : WorkerAddAssign(w, rhs)
    \/ \E w \in Workers : Merge(w)

SpecWorkers == Init /\ [][NextWorkers]_vars

NextAssoc ==
    \/ \E i \in 1..3, rhs \in StatusesUpTo(1) \ {Status_default} : Grow(i, rhs)
    \/ MergeLeft
    \/ MergeRight

SpecAssoc == Init /\ [][NextAssoc]_vars

InitSchemas == InitStatus /\ InitWorkers /\ InitAssoc /\ InitSchema

NextSchema ==
    \/ BlankTransition
    \/ PartialEq
    \/ Cmp
    \/ PartialCmp

SpecSchema == InitSchemas /\ [][NextSchema]_vars

----------------------------------------------------------------------------
(* Properties of Status *)

\* the Statuses a state of Spec holds: the accumulator, its value before the
\* last operation and the operand of the last merge
Observed == {status, last.pre, last.rhs}

NoFailures(s) == Len(s.failures) = 0
NoUnmined(s) == Len(s.unmined_endpoint_txids) = 0
NoUnresolved(s) == Len(s.unresolved_txids) = 0

\* the four rows of the validity table
Row(s) ==
    [Valid |-> NoFailures(s) /\ NoUnmined(s),
     ValidExceptEndpoints |-> NoFailures(s) /\ ~NoUnmined(s),
     Invalid |-> ~NoFailures(s) /\ NoUnresolved(s),
     UnresolvedTransactions |-> ~NoFailures(s) /\ ~NoUnresolved(s)]

\* C1: validity() follows the table: no failures and no unmined endpoint ids
\* gives Valid; no failures and some unmined endpoint id gives
\* ValidExceptEndpoints whatever unresolved_txids holds; failures and no
\* unresolved id gives Invalid; failures and some unresolved id gives
\* UnresolvedTransactions. Exactly one row applies to every Status.
C1_ValidityTable ==
    \A s \in Observed :
        /\ validity(s) \in Validity
        /\ \A v \in Validity : Row(s)[v] <=> (validity(s) = v)
        /\ Cardinality({v \in Validity : Row(s)[v]}) = 1

C1_Witness ==
    /\ last.op = "add_assign"
    /\ NoFailures(last.pre) /\ ~NoUnmined(last.pre) /\ ~NoUnresolved(last.pre)
    /\ validity(last.pre) = "ValidExceptEndpoints"
    /\ ~NoFailures(status)
    /\ validity(status) = "UnresolvedTransactions"

\* C2 as stated: an unresolved-txid entry without any failure gives the
\* verdict UnresolvedTransactions.
C2_UnresolvedWithoutFailure ==
    \A s \in Observed :
        (~NoUnresolved(s) /\ NoFailures(s)) => validity(s) = "UnresolvedTransactions"

\* C2 amended: an unresolved-txid entry gives the verdict
\* UnresolvedTransactions exactly when a failure is recorded too (the
\* SealNoWitnessTx failure of the unresolved witness); without any failure
\* the verdict is Valid or ValidExceptEndpoints, by the unmined endpoint ids.
C2_UnresolvedNeedsFailure ==
    \A s \in Observed :
        ~NoUnresolved(s) =>
            /\ ~NoFailures(s) => validity(s) = "UnresolvedTransactions"
            /\ (NoFailures(s) /\ NoUnmined(s)) => validity(s) = "Valid"
            /\ (NoFailures(s) /\ ~NoUnmined(s)) => validity(s) = "ValidExceptEndpoints"

C2_Witness ==
    /\ last.op = "add_failure" /\ last.arg = "SealNoWitnessTx"
    /\ ~NoUnresolved(last.pre) /\ NoFailures(last.pre)
    /\ validity(last.pre) = "Valid"
    /\ validity(status) = "UnresolvedTransactions"

\* C3: after a += b each of the five sequences of a is its old content
\* followed by the corresponding sequence of b.
C3_MergeConcatenates ==
    last.op = "add_assign" =>
        \A f \in Fields : status[f] = last.pre[f] \o last.rhs[f]

C3_Witness ==
    /\ last.op = "add_assign"
    /\ Len(last.pre.failures) = 1
    /\ Len(last.rhs.failures) = 2
    /\ last.rhs.failures[1] # last.rhs.failures[2]
    /\ last.rhs.failures[1] # last.pre.failures[1]

\* C4: merging b into a and then c gives the same Status as merging c into b
\* and then that into a.
C4_MergeAssociative ==
    (assoc.left # None /\ assoc.right # None) => assoc.left = assoc.right

C4_Witness ==
    /\ assoc.left # None /\ assoc.right # None
    /\ \A i \in 1..3 : Len(abc[i].unresolved_txids) + Len(abc[i].unmined_endpoint_txids) = 1
    /\ Len(abc[2].unresolved_txids) = 1 /\ Len(abc[3].unmined_endpoint_txids) = 1

\* the bag of the entries of a sequence
BagOf(seq) ==
    [x \in {seq[i] : i \in DOMAIN seq} |-> Cardinality({i \in DOMAIN seq : seq[i] = x})]

RECURSIVE BagOfWorkers(_, _)
BagOfWorkers(f, ws) ==
    IF ws = {} THEN EmptyBag
    ELSE LET w == CHOOSE x \in ws : TRUE
         IN BagOf(parts[w][f]) (+) BagOfWorkers(f, ws \ {w})

\* the partial Statuses merged into an empty accumulator in the order ord
RECURSIVE MergeInOrder(_, _, _)
MergeInOrder(a, ord, i) ==
    IF i > NumWorkers THEN a
    ELSE MergeInOrder(add_assign(a, parts[ord[i]]), ord, i + 1)

MergedWorkers == {merged[i] : i \in DOMAIN merged}

\* C5: whatever the order of the merges, each sequence of the accumulator
\* holds exactly the entries of the merged workers, as a bag, and once all
\* have merged validity() is that of every other merge order.
C5_MergeOrderLosesNothing ==
    /\ \A f \in Fields : BagOf(acc[f]) = BagOfWorkers(f, MergedWorkers)
    /\ Len(merged) = NumWorkers =>
           \A ord \in Permutations(Workers) :
               validity(MergeInOrder(Status_new, ord, 1)) = validity(acc)

C5_Witness ==
    /\ Len(merged) = NumWorkers
    /\ merged[1] # 1
    /\ \E w1, w2 \in Workers :
           /\ w1 # w2
           /\ Len(parts[w1].failures) > 0 /\ Len(parts[w2].failures) > 0
           /\ parts[w1].failures # parts[w2].failures

Others(f) == Fields \ {f}

\* C6: add_failure, add_warning and add_info each append the given entry at
\* the end of their own sequence and leave the other four unchanged.
C6_AddAppendsOne ==
    /\ last.op = "add_failure" =>
           /\ status.failures = last.pre.failures \o <<last.arg>>
           /\ \A f \in Others("failures") : status[f] = last.pre[f]
    /\ last.op = "add_warning" =>
           /\ status.warnings = last.pre.warnings \o <<last.arg>>
           /\ \A f \in Others("warnings") : status[f] = last.pre[f]
    /\ last.op = "add_info" =>
           /\ status.info = last.pre.info \o <<last.arg>>
           /\ \A f \in Others("info") : status[f] = last.pre[f]

C6_Witness ==
    /\ last.op = "add_info"
    /\ Len(last.pre.info) = 1
    /\ Len(last.pre.warnings) = 1
    /\ Len(status.info) = 2

AllEmpty(s) == \A f \in Fields : s[f] = << >>

\* C7: new() is empty, and from_error(f) and with_failure(f) both give the
\* Status of new() followed by add_failure(f): failures is [f], the rest empty.
C7_Constructors ==
    /\ last.op = "new" => AllEmpty(status)
    /\ last.op \in {"from_error", "with_failure"} =>
           /\ status = add_failure(Status_new, last.arg)
           /\ status.failures = <<last.arg>>
           /\ \A f \in Others("failures") : status[f] = << >>

C7_Witness ==
    /\ last.op = "from_error"
    /\ last.arg = "SealNoWitnessTx"
    /\ Entries(last.pre) = MaxEntries

SameVerdictInputs(x, y) ==
    /\ x.failures = y.failures
    /\ x.unresolved_txids = y.unresolved_txids
    /\ x.unmined_endpoint_txids = y.unmined_endpoint_txids

\* C8: Statuses that agree on failures and on the two transaction-id
\* sequences have the same validity(), and add_warning and add_info leave
\* validity() as it was.
C8_ValidityIgnoresWarningsInfo ==
    /\ \A x \in Observed, y \in Observed :
           SameVerdictInputs(x, y) => validity(x) = validity(y)
    /\ last.op \in {"add_warning", "add_info"} => validity(status) = validity(last.pre)

C8_Witness ==
    /\ last.op = "add_warning"
    /\ AllEmpty(last.pre)
    /\ status.warnings # last.pre.warnings
    /\ validity(status) = "Valid"

----------------------------------------------------------------------------
(* Properties of Schema *)

\* C9: blank_transition() binds exactly the owned type ids of the schema, in
\* inputs and in assignments, each to NoneOrMore, which admits every count;
\* the schema is left as it was.
C9_BlankTransition ==
    out.op = "blank_transition" =>
        LET owned == DOMAIN out.pre[1].owned_types
            ts == out.res
        IN /\ DOMAIN ts.inputs = owned
           /\ DOMAIN ts.assignments = owned
           /\ Cardinality(DOMAIN ts.inputs) = Cardinality(owned)
           /\ Cardinality(DOMAIN ts.assignments) = Cardinality(owned)
           /\ \A id \in owned :
                  /\ ts.inputs[id] = "NoneOrMore"
                  /\ ts.assignments[id] = "NoneOrMore"
                  /\ \A count \in 0..MaxCount :
                         /\ Occurrences_check(ts.inputs[id], count)
                         /\ Occurrences_check(ts.assignments[id], count)
           /\ schemas = out.pre

C9_Witness ==
    /\ out.op = "blank_transition"
    /\ Cardinality(DOMAIN schemas[1].owned_types) = TINY_MAX
    /\ DOMAIN out.res.inputs = DOMAIN schemas[1].owned_types

\* the order of two ids by their bytes, first byte first
ByteOrder(a, b) ==
    IF \A i \in 1..ID_LEN : a[i] = b[i] THEN "Equal"
    ELSE LET d == CHOOSE i \in 1..ID_LEN :
                      a[i] # b[i] /\ \A j \in 1..(i - 1) : a[j] = b[j]
         IN IF a[d] < b[d] THEN "Less" ELSE "Greater"

\* C10: S == T iff the schema ids are equal, cmp(S, T) is the byte order of
\* the ids, it is Equal exactly when S == T, and partial_cmp is Some of cmp.
C10_IdentityThroughId ==
    LET S == out.pre[1]
        T == out.pre[2]
    IN /\ out.op = "eq" => (out.res <=> (schema_id(S) = schema_id(T)))
       /\ out.op = "cmp" =>
              /\ out.res = ByteOrder(schema_id(S), schema_id(T))
              /\ (out.res = "Equal") <=> Schema_eq(S, T)
       /\ out.op = "partial_cmp" =>
              /\ out.res = Some(ByteOrder(schema_id(S), schema_id(T)))
              /\ out.res = Some(Schema_cmp(S, T))

C10_Witness ==
    /\ out.op = "cmp"
    /\ out.res = "Less"
    /\ schemas[1].ffv > schemas[2].ffv
    /\ DOMAIN schemas[1].owned_types # DOMAIN schemas[2].owned_types

----------------------------------------------------------------------------
(* Properties of the history of one Status *)

\* the operations that add to a Status, as against building a new one
AppendOps == {"add_failure", "add_warning", "add_info", "add_assign"}

\* C11 as stated: once validity() is Invalid it stays Invalid under
\* add_failure, add_warning, add_info and the merge of any other Status.
C11_InvalidIsFinal ==
    [][(validity(status) = "Invalid" /\ last'.op \in AppendOps)
          => validity(status') = "Invalid"]_vars

\* C11 amended: once validity() is Invalid it stays Invalid under
\* add_failure, add_warning, add_info and the merge of a Status that holds no
\* unresolved txid; the merge of a Status that holds one turns the verdict
\* into UnresolvedTransactions.
C11_InvalidUntilUnresolvedMerged ==
    [][(validity(status) = "Invalid" /\ last'.op \in AppendOps)
          => /\ NoUnresolved(last'.rhs) => validity(status') = "Invalid"
             /\ ~NoUnresolved(last'.rhs) => validity(status') = "UnresolvedTransactions"]_vars

C11_Witness ==
    /\ last.op = "add_assign"
    /\ validity(last.pre) = "Invalid"
    /\ NoUnresolved(last.rhs)
    /\ ~NoUnmined(last.rhs) /\ ~NoFailures(last.rhs)
    /\ validity(status) = "Invalid"

IsPrefix(p, q) == Len(p) <= Len(q) /\ SubSeq(q, 1, Len(p)) = p

\* C12: add_failure, add_warning, add_info and += keep the earlier content of
\* each of the five sequences as a prefix, and a Status with a failure never
\* gets the verdict Valid or ValidExceptEndpoints again.
C12_AppendOnly ==
    [][last'.op \in AppendOps
          => /\ \A f \in Fields : IsPrefix(status[f], status'[f])
             /\ ~NoFailures(status) =>
                    /\ ~NoFailures(status')
                    /\ validity(status') \notin {"Valid", "ValidExceptEndpoints"}]_vars

C12_Witness ==
    /\ last.op = "add_assign"
    /\ Len(last.pre.failures) = 1
    /\ Len(last.rhs.failures) = 1 /\ ~NoUnmined(last.rhs)
    /\ last.rhs.failures # last.pre.failures
    /\ validity(status) = "Invalid"

====
